---------------------------- MODULE Spec2Model ----------------------------
(***************************************************************************)
(* State-machine model of the Socket.IO relay in src/server.js: the four   *)
(* module-level maps (onlineUsers, typingUsers, locationRoomUsers,         *)
(* socketLocationRooms), the adapter's room membership, the pending typing *)
(* timers, and one action per inbound event handler.                       *)
(*                                                                         *)
(* Strings that the code concatenates, splits or upper-cases are modelled  *)
(* as tuples of one-character strings, so that `${c}:${u}`, endsWith,      *)
(* split(':')[0] and toUpperCase are computed and not assumed.  The empty  *)
(* tuple stands for a missing (undefined / empty, hence falsy) field.      *)
(*                                                                         *)
(* Every handler is an operator from a state record to a state record,     *)
(* written statement by statement in the order of the code; an action      *)
(* installs the record its handler returns.  The field emitted holds the   *)
(* outbound events of the handler that ran last, in emission order, each   *)
(* with the sessions that receive it; the field last names that handler,   *)
(* the session it ran for and the payload it was given.                    *)
(***************************************************************************)
EXTENDS Naturals, Integers, Sequences, FiniteSets, TLC

VARIABLES sockets, onlineUsers, typingUsers, timers, locationRoomUsers,
          socketLocationRooms, rooms, last, emitted

vars == <<sockets, onlineUsers, typingUsers, timers, locationRoomUsers,
          socketLocationRooms, rooms, last, emitted>>

(***************************************************************************)
(* Bounds and input domains                                                *)
(***************************************************************************)
\* Number of connections the transport accepts during one run of a
\* specification with rooms, typing or location chat.
MaxSockets == 2

\* Number of connections the transport accepts during one run of the
\* specification of the online registry alone.
MaxSessions == 3

\* Number of connections the transport accepts during one run of the
\* specification with fair timers.
MaxTypists == 1

\* Number of timers scheduled for one typing key while its entry stays pending:
\* the first 'typing' signal and MaxTimers - 1 further ones.
MaxTimers == 2

\* A missing or empty field (falsy in JavaScript).
Missing == <<>>

UserIds == {<<"u">>, <<"v">>}

ConversationIds == {<<"c">>}

\* Display names; the empty string is a missing name.
UserNames == {"Ann"}

\* Country codes as clients send them: the same area in both letter cases.
CountryCodes == {<<"f", "r">>, <<"F", "R">>}

Truthy(x) == x # Missing

(***************************************************************************)
(* The state as one record, and its installation as the next state         *)
(***************************************************************************)
\* An inbound event: the handler it runs, the session it came from (0 for a
\* timer) and its payload.  Every payload is a record, a bare value v being
\* held as [value |-> v].
Event(handler, s, data) == [handler |-> handler, socket |-> s, data |-> data]

Bare(v) == [value |-> v]

NoData == Bare(Missing)

\* The state in which the handler of inbound event ev starts.
Start(ev) ==
  [sockets |-> sockets, onlineUsers |-> onlineUsers, typingUsers |-> typingUsers,
   timers |-> timers, locationRoomUsers |-> locationRoomUsers,
   socketLocationRooms |-> socketLocationRooms, rooms |-> rooms,
   last |-> ev, emitted |-> <<>>]

State == Start(last)

Install(st) ==
  /\ sockets' = st.sockets
  /\ onlineUsers' = st.onlineUsers
  /\ typingUsers' = st.typingUsers
  /\ timers' = st.timers
  /\ locationRoomUsers' = st.locationRoomUsers
  /\ socketLocationRooms' = st.socketLocationRooms
  /\ rooms' = st.rooms
  /\ last' = st.last
  /\ emitted' = st.emitted

(***************************************************************************)
(* JavaScript Map and Set primitives                                       *)
(***************************************************************************)
EmptyMap == [k \in {} |-> {}]

MapHas(m, k) == k \in DOMAIN m

MapSet(m, k, v) == [x \in (DOMAIN m) \cup {k} |-> IF x = k THEN v ELSE m[x]]

MapDelete(m, k) == [x \in (DOMAIN m) \ {k} |-> m[x]]

\* A Map whose iteration order is observed: the sequence of its entries in
\* insertion order, each a record with the key in field id.
OMapHas(m, k) == \E i \in 1..Len(m) : m[i].id = k

OMapSet(m, k, v) ==
  IF OMapHas(m, k)
  THEN [i \in 1..Len(m) |-> IF m[i].id = k THEN v ELSE m[i]]
  ELSE Append(m, v)

OMapDelete(m, k) == SelectSeq(m, LAMBDA e : e.id # k)

\* String.prototype.toUpperCase on the letters the payloads use
UpperChar(ch) ==
  CASE ch = "f" -> "F"
    [] ch = "r" -> "R"
    [] ch = "u" -> "U"
    [] ch = "s" -> "S"
    [] ch = "e" -> "E"
    [] OTHER -> ch

toUpperCase(str) == [i \in 1..Len(str) |-> UpperChar(str[i])]

\* String.prototype.endsWith
endsWith(str, suffix) ==
  /\ Len(suffix) <= Len(str)
  /\ SubSeq(str, Len(str) - Len(suffix) + 1, Len(str)) = suffix

\* str.split(':')[0]: the text before the first ':' (all of it if none)
RECURSIVE splitFirst(_)
splitFirst(str) ==
  IF str = <<>> \/ Head(str) = ":" THEN <<>>
  ELSE <<Head(str)>> \o splitFirst(Tail(str))

(***************************************************************************)
(* Socket.IO primitives: rooms and emission                                *)
(***************************************************************************)
ConnectedOf(st) == {s \in 1..Len(st.sockets) : st.sockets[s].connected}

MembersOf(st, room) == {s \in ConnectedOf(st) : <<room, s>> \in st.rooms}

UserRoom(userId) == <<"user", userId>>

ConversationRoom(conversationId) == <<"conversation", conversationId>>

LocationRoom(code) == <<"location-chat", code>>

\* room.replace('location-chat:', ''): the text after the prefix
RoomCode(room) == room[2]

Everyone == <<"*", Missing>>

\* The characters of the text a template literal puts before the id
Prefix(tag) ==
  CASE tag = "user" -> <<"u", "s", "e", "r", ":">>
    [] tag = "conversation" ->
         <<"c", "o", "n", "v", "e", "r", "s", "a", "t", "i", "o", "n", ":">>
    [] tag = "location-chat" ->
         <<"l", "o", "c", "a", "t", "i", "o", "n", "-", "c", "h", "a", "t", ":">>
    [] OTHER -> <<>>

\* The name the adapter knows a room by: `user:${userId}`,
\* `conversation:${conversationId}` or `location-chat:${normalizedCode}`, a
\* missing id being interpolated as 'undefined'
RoomName(room) ==
  Prefix(room[1]) \o (IF room[2] = Missing
                      THEN <<"u", "n", "d", "e", "f", "i", "n", "e", "d">>
                      ELSE room[2])

SocketRoom(s) == <<"socket", <<s>>>>

socket_join(st, s, room) == [st EXCEPT !.rooms = @ \cup {<<room, s>>}]

socket_leave(st, s, room) == [st EXCEPT !.rooms = @ \ {<<room, s>>}]

\* An outbound event: its name, for `message:${id}` and `message:user:${id}` the
\* interpolated id, the room it is addressed to, the sessions that receive it
\* and its payload.
EmissionFor(ev, id, room, to, data) ==
  [event |-> ev, id |-> id, room |-> room, to |-> to, data |-> data]

Emission(ev, room, to, data) == EmissionFor(ev, Missing, room, to, data)

\* io.emit(ev, data): every connected session
io_emit(st, ev, data) ==
  [st EXCEPT !.emitted = Append(@, Emission(ev, Everyone, ConnectedOf(st), data))]

\* io.to(room).emit(ev, data): the members of the room at the time of the call
io_to_emit(st, room, ev, data) ==
  [st EXCEPT !.emitted = Append(@, Emission(ev, room, MembersOf(st, room), data))]

\* A socket.to(room).emit that also reaches the sender
socket_to_emit_echo(st, s, room, ev, data) ==
  [st EXCEPT !.emitted = Append(@, Emission(ev, room, MembersOf(st, room), data))]

\* socket.to(room).emit(ev, data): the members of the room except the sender
socket_to_emit(st, s, room, ev, data) ==
  [st EXCEPT !.emitted = Append(@, Emission(ev, room, MembersOf(st, room) \ {s}, data))]

\* io.to(room).emit(`${ev}${id}`, data)
io_to_emit_for(st, room, ev, id, data) ==
  [st EXCEPT !.emitted = Append(@, EmissionFor(ev, id, room, MembersOf(st, room), data))]

\* socket.emit(ev, data): the session itself
socket_emit(st, s, ev, data) ==
  [st EXCEPT !.emitted = Append(@, Emission(ev, SocketRoom(s), {s}, data))]

(***************************************************************************)
(* Helpers of server.js                                                    *)
(***************************************************************************)
broadcastUserStatus(st, userId, isOnline) ==
  io_emit(st, IF isOnline THEN "userOnline" ELSE "userOffline", Bare(userId))

\* `${conversationId}:${userId}`
Key(conversationId, userId) == conversationId \o <<":">> \o userId

\* clearTimeout(timeout): the timer is no longer scheduled
clearTimeout(st, timeout) == [st EXCEPT !.timers = @ \ {timeout}]

\* clearTypingTimeout that forgets the entry and leaves its timer scheduled
clearTypingTimeout_keepsTimer(st, conversationId, userId) ==
  LET key == Key(conversationId, userId) IN
  IF MapHas(st.typingUsers, key)
  THEN [st EXCEPT !.typingUsers = MapDelete(@, key)]
  ELSE st

clearTypingTimeout(st, conversationId, userId) ==
  LET key == Key(conversationId, userId) IN
  IF MapHas(st.typingUsers, key)
  THEN LET st1 == clearTimeout(st, st.typingUsers[key].timeout)
       IN [st1 EXCEPT !.typingUsers = MapDelete(@, key)]
  ELSE st

\* The presence payload of a room: Array.from(roomUsers.entries()).map(...)
PresenceUsers(st, room) ==
  IF MapHas(st.locationRoomUsers, room)
  THEN [i \in 1..Len(st.locationRoomUsers[room]) |->
          [id |-> st.locationRoomUsers[room][i].id,
           name |-> st.locationRoomUsers[room][i].userName]]
  ELSE <<>>

Presence(st, room, countryCode) ==
  LET users == PresenceUsers(st, room) IN
  [countryCode |-> countryCode, onlineCount |-> Len(users), users |-> users]

broadcastLocationRoomPresence(st, room, countryCode) ==
  io_to_emit(st, room, "location-room-presence", Presence(st, room, countryCode))

addUserToLocationRoom(st, room, userId, socketId, userName) ==
  LET st1 == IF ~MapHas(st.locationRoomUsers, room)
             THEN [st EXCEPT !.locationRoomUsers = MapSet(@, room, <<>>)]
             ELSE st
      st2 == [st1 EXCEPT !.locationRoomUsers[room] =
                OMapSet(@, userId, [id |-> userId, socketId |-> socketId,
                                    userName |-> userName])]
      st3 == IF ~MapHas(st2.socketLocationRooms, socketId)
             THEN [st2 EXCEPT !.socketLocationRooms = MapSet(@, socketId, {})]
             ELSE st2
  IN [st3 EXCEPT !.socketLocationRooms[socketId] = @ \cup {room}]

\* A removeUserFromLocationRoom that keeps a room whose last user has gone
removeUserFromLocationRoom_keepsEmpty(st, room, userId, socketId) ==
  LET st1 == IF MapHas(st.locationRoomUsers, room)
             THEN [st EXCEPT !.locationRoomUsers[room] = OMapDelete(@, userId)]
             ELSE st
  IN IF MapHas(st1.socketLocationRooms, socketId)
     THEN LET socketRooms == st1.socketLocationRooms[socketId] \ {room}
          IN IF Cardinality(socketRooms) = 0
             THEN [st1 EXCEPT !.socketLocationRooms = MapDelete(@, socketId)]
             ELSE [st1 EXCEPT !.socketLocationRooms[socketId] = socketRooms]
     ELSE st1

removeUserFromLocationRoom(st, room, userId, socketId) ==
  LET st1 == IF MapHas(st.locationRoomUsers, room)
             THEN LET roomUsers == OMapDelete(st.locationRoomUsers[room], userId)
                  IN IF Len(roomUsers) = 0
                     THEN [st EXCEPT !.locationRoomUsers = MapDelete(@, room)]
                     ELSE [st EXCEPT !.locationRoomUsers[room] = roomUsers]
             ELSE st
  IN IF MapHas(st1.socketLocationRooms, socketId)
     THEN LET socketRooms == st1.socketLocationRooms[socketId] \ {room}
          IN IF Cardinality(socketRooms) = 0
             THEN [st1 EXCEPT !.socketLocationRooms = MapDelete(@, socketId)]
             ELSE [st1 EXCEPT !.socketLocationRooms[socketId] = socketRooms]
     ELSE st1

(***************************************************************************)
(* io.on('connection')                                                     *)
(***************************************************************************)
\* The transport accepts the connection and assigns the next session id.
Accept(st, userId) ==
  [st EXCEPT !.sockets = Append(@, [userId |-> userId, connected |-> TRUE])]

\* A connection handler that replaces the user's session set by the new session
connection_replacesSet(st, s) ==
  LET userId == st.sockets[s].userId IN
  IF Truthy(userId)
  THEN LET st2 == [st EXCEPT !.onlineUsers = MapSet(@, userId, {s})]
           st3 == broadcastUserStatus(st2, userId, TRUE)
       IN socket_join(st3, s, UserRoom(userId))
  ELSE st

connection(st, s) ==
  LET userId == st.sockets[s].userId IN
  IF Truthy(userId)
  THEN LET st1 == IF ~MapHas(st.onlineUsers, userId)
                  THEN [st EXCEPT !.onlineUsers = MapSet(@, userId, {})]
                  ELSE st
           st2 == [st1 EXCEPT !.onlineUsers[userId] = @ \cup {s}]
           st3 == broadcastUserStatus(st2, userId, TRUE)
       IN socket_join(st3, s, UserRoom(userId))
  ELSE st

\* Array.from(onlineUsers.keys()), as the set of its elements
getOnlineUsers(st, s) ==
  LET userIds == DOMAIN st.onlineUsers IN
  socket_emit(st, s, "onlineUsers", Bare(userIds))

(***************************************************************************)
(* Conversation events                                                     *)
(***************************************************************************)
\* A 'join-conversation' handler that joins the room named by the id alone
join_conversation_unprefixed(st, s, conversationId) ==
  socket_join(st, s, <<"", conversationId>>)

join_conversation(st, s, conversationId) ==
  socket_join(st, s, ConversationRoom(conversationId))

leave_conversation(st, s, conversationId) ==
  LET userId == st.sockets[s].userId
      st1 == socket_leave(st, s, ConversationRoom(conversationId))
  IN IF Truthy(userId)
     THEN LET st2 == clearTypingTimeout(st1, conversationId, userId)
          IN io_to_emit(st2, ConversationRoom(conversationId), "userStopTyping",
                        [userId |-> userId, conversationId |-> conversationId])
     ELSE st1

\* data.participantIds.forEach(...), from element i on
RECURSIVE notifyParticipants(_, _, _, _)
notifyParticipants(st, userId, data, i) ==
  IF i > Len(data.participantIds) THEN st
  ELSE LET participantId == data.participantIds[i]
           st1 == IF participantId # userId
                  THEN io_to_emit_for(st, UserRoom(participantId), "message:user:",
                                      participantId, data)
                  ELSE st
       IN notifyParticipants(st1, userId, data, i + 1)

\* A 'send-message' handler that sends the room-scoped message with socket.to
send_message_skipsSender(st, s, data) ==
  LET userId == st.sockets[s].userId
      room == ConversationRoom(data.conversationId)
      st1 == IF Truthy(userId)
             THEN io_to_emit(clearTypingTimeout(st, data.conversationId, userId),
                             room, "userStopTyping",
                             [userId |-> userId, conversationId |-> data.conversationId])
             ELSE st
      st2 == [st1 EXCEPT !.emitted =
                Append(@, EmissionFor("message:", data.conversationId, room,
                                      MembersOf(st1, room) \ {s}, Bare(data.message)))]
      st3 == io_emit(st2, "newMessage", data)
      st4 == IF Truthy(data.recipientId)
             THEN io_to_emit_for(st3, UserRoom(data.recipientId), "message:user:",
                                 data.recipientId, data)
             ELSE st3
  IN IF data.isGroupConversation /\ Truthy(data.participantIds)
     THEN notifyParticipants(st4, userId, data, 1)
     ELSE st4

send_message(st, s, data) ==
  LET userId == st.sockets[s].userId
      room == ConversationRoom(data.conversationId)
      st1 == IF Truthy(userId)
             THEN io_to_emit(clearTypingTimeout(st, data.conversationId, userId),
                             room, "userStopTyping",
                             [userId |-> userId, conversationId |-> data.conversationId])
             ELSE st
      st2 == io_to_emit_for(st1, room, "message:", data.conversationId, Bare(data.message))
      st3 == io_emit(st2, "newMessage", data)
      st4 == IF Truthy(data.recipientId)
             THEN io_to_emit_for(st3, UserRoom(data.recipientId), "message:user:",
                                 data.recipientId, data)
             ELSE st3
  IN IF data.isGroupConversation /\ Truthy(data.participantIds)
     THEN notifyParticipants(st4, userId, data, 1)
     ELSE st4

(***************************************************************************)
(* Typing indicators                                                       *)
(***************************************************************************)
\* The handles of the timers scheduled for a key that are still scheduled or
\* still stored in typingUsers.
HandlesInUse(st, key) ==
  {t.handle : t \in {x \in st.timers : x.key = key}}
    \cup (IF MapHas(st.typingUsers, key) THEN {st.typingUsers[key].timeout.handle} ELSE {})

\* setTimeout(callback, 3000) returns a new Timeout object: the timers of a key
\* are numbered in the order of their creation while any of them is in use.
NewTimeout(st, data) ==
  LET key == Key(data.conversationId, data.userId)
      used == HandlesInUse(st, key)
  IN [handle |-> IF used = {} THEN 1
                 ELSE 1 + (CHOOSE h \in used : \A g \in used : g <= h),
      key |-> key, conversationId |-> data.conversationId, userId |-> data.userId]

\* A 'typing' handler that schedules the new timer without clearing the old one
typing_noClear(st, s, data) ==
  IF ~Truthy(data.userId) \/ ~Truthy(data.conversationId) THEN st
  ELSE LET key == Key(data.conversationId, data.userId)
           timeout == NewTimeout(st, data)
           st2 == [st EXCEPT !.timers = @ \cup {timeout}]
           st3 == [st2 EXCEPT !.typingUsers =
                     MapSet(@, key, [timeout |-> timeout, userName |-> data.userName])]
       IN socket_to_emit(st3, s, ConversationRoom(data.conversationId), "userTyping", data)

typing(st, s, data) ==
  IF ~Truthy(data.userId) \/ ~Truthy(data.conversationId) THEN st
  ELSE LET key == Key(data.conversationId, data.userId)
           timeout == NewTimeout(st, data)
           st1 == clearTypingTimeout(st, data.conversationId, data.userId)
           st2 == [st1 EXCEPT !.timers = @ \cup {timeout}]
           st3 == [st2 EXCEPT !.typingUsers =
                     MapSet(@, key, [timeout |-> timeout, userName |-> data.userName])]
       IN socket_to_emit(st3, s, ConversationRoom(data.conversationId), "userTyping", data)

\* The callback given to setTimeout in the 'typing' handler, run for timer t.
typingTimeout(st, t) ==
  LET st1 == [st EXCEPT !.typingUsers = MapDelete(@, t.key)]
  IN io_to_emit(st1, ConversationRoom(t.conversationId), "userStopTyping",
                [userId |-> t.userId, conversationId |-> t.conversationId])

stopTyping(st, s, data) ==
  IF ~Truthy(data.userId) \/ ~Truthy(data.conversationId) THEN st
  ELSE LET st1 == clearTypingTimeout(st, data.conversationId, data.userId)
       IN socket_to_emit(st1, s, ConversationRoom(data.conversationId),
                         "userStopTyping", data)

(***************************************************************************)
(* Conversation updates                                                    *)
(***************************************************************************)
\* A 'conversation-update' handler that broadcasts to the other sessions only
conversation_update_othersOnly(st, s, data) ==
  LET event == IF data.status = "accepted"
               THEN "contactRequestAccepted" ELSE "contactRequestRejected"
  IN [st EXCEPT !.emitted = Append(@, Emission(event, Everyone, ConnectedOf(st) \ {s}, data))]

conversation_update(st, s, data) ==
  LET event == IF data.status = "accepted"
               THEN "contactRequestAccepted" ELSE "contactRequestRejected"
  IN io_emit(st, event, data)

(***************************************************************************)
(* Location chat events                                                    *)
(***************************************************************************)
\* A 'join-location-chat' handler that uses the country code as it came
join_location_chat_rawCode(st, s, data) ==
  IF ~Truthy(data.countryCode) THEN st
  ELSE LET room == LocationRoom(data.countryCode)
           st1 == socket_join(st, s, room)
           displayName == IF data.userName # "" THEN data.userName ELSE "Anonymous"
           st2 == addUserToLocationRoom(st1, room, data.userId, s, displayName)
       IN broadcastLocationRoomPresence(st2, room, data.countryCode)

join_location_chat(st, s, data) ==
  IF ~Truthy(data.countryCode) THEN st
  ELSE LET normalizedCode == toUpperCase(data.countryCode)
           room == LocationRoom(normalizedCode)
           st1 == socket_join(st, s, room)
           displayName == IF data.userName # "" THEN data.userName ELSE "Anonymous"
           st2 == addUserToLocationRoom(st1, room, data.userId, s, displayName)
       IN broadcastLocationRoomPresence(st2, room, normalizedCode)

leave_location_chat(st, s, data) ==
  IF ~Truthy(data.countryCode) THEN st
  ELSE LET normalizedCode == toUpperCase(data.countryCode)
           room == LocationRoom(normalizedCode)
           st1 == socket_leave(st, s, room)
           st2 == removeUserFromLocationRoom(st1, room, data.userId, s)
       IN broadcastLocationRoomPresence(st2, room, normalizedCode)

\* A 'get-location-room-users' handler that answers with a presence broadcast
get_location_room_users_broadcasts(st, s, data) ==
  IF ~Truthy(data.countryCode) THEN st
  ELSE LET normalizedCode == toUpperCase(data.countryCode)
       IN broadcastLocationRoomPresence(st, LocationRoom(normalizedCode), normalizedCode)

get_location_room_users(st, s, data) ==
  IF ~Truthy(data.countryCode) THEN st
  ELSE LET normalizedCode == toUpperCase(data.countryCode)
           room == LocationRoom(normalizedCode)
           users == IF MapHas(st.locationRoomUsers, room)
                    THEN [i \in 1..Len(st.locationRoomUsers[room]) |->
                            [id |-> st.locationRoomUsers[room][i].id,
                             name |-> st.locationRoomUsers[room][i].userName]]
                    ELSE <<>>
       IN socket_emit(st, s, "location-room-presence",
                      [countryCode |-> normalizedCode, onlineCount |-> Len(users),
                       users |-> users])

\* A 'send-location-message' handler that sends with socket.to
send_location_message_skipsSender(st, s, data) ==
  IF ~Truthy(data.countryCode) \/ data.message = "" THEN st
  ELSE LET room == LocationRoom(toUpperCase(data.countryCode))
       IN socket_to_emit(st, s, room, "location-message", Bare(data.message))

\* The empty string is a missing message.
send_location_message(st, s, data) ==
  IF ~Truthy(data.countryCode) \/ data.message = "" THEN st
  ELSE LET room == LocationRoom(toUpperCase(data.countryCode))
       IN io_to_emit(st, room, "location-message", Bare(data.message))

location_chat_typing(st, s, data) ==
  IF ~Truthy(data.countryCode) \/ ~Truthy(data.userId) THEN st
  ELSE LET room == LocationRoom(toUpperCase(data.countryCode))
       IN socket_to_emit(st, s, room, "location-user-typing",
                         [userId |-> data.userId, userName |-> data.userName,
                          countryCode |-> data.countryCode])

location_chat_stop_typing(st, s, data) ==
  IF ~Truthy(data.countryCode) \/ ~Truthy(data.userId) THEN st
  ELSE LET room == LocationRoom(toUpperCase(data.countryCode))
       IN socket_to_emit(st, s, room, "location-user-stop-typing",
                         [userId |-> data.userId, countryCode |-> data.countryCode])

(***************************************************************************)
(* socket.on('disconnect')                                                 *)
(***************************************************************************)
\* The transport closes the session and takes it out of every room before
\* the 'disconnect' listeners run.
Close(st, s) ==
  [st EXCEPT !.sockets[s].connected = FALSE,
             !.rooms = {p \in @ : p[2] # s}]

\* for (const [key, value] of typingUsers.entries()) over the keys in todo.
\* The loop visits the entries in insertion order; the model visits them in
\* an order of its own, which the state it leaves does not depend on.
RECURSIVE clearTypingOfUser(_, _, _)
clearTypingOfUser(st, userId, todo) ==
  IF todo = {} THEN st
  ELSE LET key == CHOOSE k \in todo : TRUE
           st1 == IF endsWith(key, <<":">> \o userId)
                  THEN LET st2 == clearTimeout(st, st.typingUsers[key].timeout)
                           st3 == [st2 EXCEPT !.typingUsers = MapDelete(@, key)]
                           conversationId == splitFirst(key)
                       IN io_to_emit(st3, ConversationRoom(conversationId), "userStopTyping",
                                     [userId |-> userId, conversationId |-> conversationId])
                  ELSE st
       IN clearTypingOfUser(st1, userId, todo \ {key})

\* A disconnect handler that announces the user offline at every session's end
disconnectOnline_alwaysOffline(st, s) ==
  LET userId == st.sockets[s].userId IN
  IF Truthy(userId) /\ MapHas(st.onlineUsers, userId)
  THEN LET userSockets == st.onlineUsers[userId] \ {s}
           st1 == [st EXCEPT !.onlineUsers[userId] = userSockets]
           st2 == IF Cardinality(userSockets) = 0
                  THEN [st1 EXCEPT !.onlineUsers = MapDelete(@, userId)]
                  ELSE st1
           st3 == broadcastUserStatus(st2, userId, FALSE)
       IN IF Cardinality(userSockets) = 0
          THEN clearTypingOfUser(st3, userId, DOMAIN st3.typingUsers)
          ELSE st3
  ELSE st

\* Lines 376-402: online tracking and typing indicators
disconnectOnline(st, s) ==
  LET userId == st.sockets[s].userId IN
  IF Truthy(userId) /\ MapHas(st.onlineUsers, userId)
  THEN LET userSockets == st.onlineUsers[userId] \ {s}
           st1 == [st EXCEPT !.onlineUsers[userId] = userSockets]
       IN IF Cardinality(userSockets) = 0
          THEN LET st2 == [st1 EXCEPT !.onlineUsers = MapDelete(@, userId)]
                   st3 == broadcastUserStatus(st2, userId, FALSE)
               IN clearTypingOfUser(st3, userId, DOMAIN st3.typingUsers)
          ELSE st1
  ELSE st

\* for (const room of socketRooms) over the rooms in todo
RECURSIVE cleanLocationRooms(_, _, _)
cleanLocationRooms(st, userId, todo) ==
  IF todo = {} THEN st
  ELSE LET room == CHOOSE r \in todo : TRUE
           st1 == IF MapHas(st.locationRoomUsers, room)
                  THEN LET roomUsers == OMapDelete(st.locationRoomUsers[room], userId)
                       IN IF Len(roomUsers) = 0
                          THEN [st EXCEPT !.locationRoomUsers = MapDelete(@, room)]
                          ELSE broadcastLocationRoomPresence(
                                 [st EXCEPT !.locationRoomUsers[room] = roomUsers],
                                 room, RoomCode(room))
                  ELSE st
       IN cleanLocationRooms(st1, userId, todo \ {room})

\* Lines 404-421: location chat room presence
disconnectLocation(st, s) ==
  LET userId == st.sockets[s].userId IN
  IF MapHas(st.socketLocationRooms, s) /\ Truthy(userId)
  THEN LET st1 == cleanLocationRooms(st, userId, st.socketLocationRooms[s])
       IN [st1 EXCEPT !.socketLocationRooms = MapDelete(@, s)]
  ELSE st

disconnect(st, s) == disconnectLocation(disconnectOnline(st, s), s)

(***************************************************************************)
(* app.get('/stats')                                                       *)
(***************************************************************************)
\* The HTTP client that the response goes to is no session.
HttpClient == <<"http", Missing>>

\* res.json({...}) without uptime: the sizes of the maps
stats(st) ==
  [st EXCEPT !.emitted =
     Append(@, Emission("stats", HttpClient, {},
                        [connections |-> Cardinality(ConnectedOf(st)),
                         onlineUsers |-> Cardinality(DOMAIN st.onlineUsers),
                         typingUsers |-> Cardinality(DOMAIN st.typingUsers),
                         locationChatRooms |-> Cardinality(DOMAIN st.locationRoomUsers)]))]

(***************************************************************************)
(* Inputs of the handlers                                                  *)
(***************************************************************************)
HandshakeIds == UserIds \cup {Missing}

\* Payloads of 'typing' and 'stopTyping' with both required fields
TypingFields == [userId : UserIds, conversationId : ConversationIds, userName : UserNames]

TypingData ==
  [userId : UserIds \cup {Missing}, conversationId : ConversationIds \cup {Missing},
   userName : UserNames]

\* Payloads of 'send-message' with neither a recipient nor participants
PlainMessages ==
  [conversationId : ConversationIds, message : {"hi"},
   recipientId : {Missing}, isGroupConversation : {FALSE},
   participantIds : {Missing}]

SendMessageData ==
  PlainMessages
    \cup
  [conversationId : ConversationIds, message : {"hi"},
   recipientId : {<<"v">>}, isGroupConversation : {FALSE},
   participantIds : {Missing}]
    \cup
  [conversationId : ConversationIds, message : {"hi"},
   recipientId : {Missing}, isGroupConversation : {TRUE},
   participantIds : {<<<<"u">>, <<"v">>>>}]

\* Payloads of 'send-message' with every combination of recipient, group flag
\* and participants, among them participants that repeat
MailboxMessages ==
  [conversationId : ConversationIds, message : {"hi"},
   recipientId : UserIds \cup {Missing}, isGroupConversation : BOOLEAN,
   participantIds : {Missing, <<<<"u">>, <<"v">>>>, <<<<"v">>, <<"v">>>>}]

\* Payloads of 'join-location-chat'
LocationData ==
  [countryCode : CountryCodes \cup {Missing}, userId : UserIds,
   userName : UserNames \cup {""}]

\* Payloads of 'leave-location-chat'
LeaveLocationData == [countryCode : CountryCodes \cup {Missing}, userId : UserIds]

\* Payloads of 'get-location-room-users'
LocationQueries == [countryCode : CountryCodes \cup {Missing}]

\* Payloads of 'conversation-update'; the empty string is a missing status
ConversationUpdates ==
  [status : {"accepted", "rejected", "pending", ""}, conversationId : ConversationIds]

\* Payloads of 'send-location-message'; the empty string is a missing message
LocationMessages == [countryCode : CountryCodes \cup {Missing}, message : {"salut", ""}]

\* Payloads of 'location-chat-typing'
LocationTypingData ==
  [countryCode : CountryCodes \cup {Missing}, userId : UserIds \cup {Missing},
   userName : UserNames]

\* Payloads of 'location-chat-stop-typing'
LocationStopTypingData ==
  [countryCode : CountryCodes \cup {Missing}, userId : UserIds \cup {Missing}]

\* Whether inbound event ev lacks a field its handler needs
Malformed(ev) ==
  CASE ev.handler \in {"join-conversation", "leave-conversation"} ->
         ~Truthy(ev.data.value)
    [] ev.handler = "send-message" ->
         ~Truthy(ev.data.conversationId) \/ ev.data.message = ""
    [] ev.handler = "conversation-update" -> ev.data.status = ""
    [] ev.handler \in {"typing", "stopTyping"} ->
         ~Truthy(ev.data.userId) \/ ~Truthy(ev.data.conversationId)
    [] ev.handler = "join-location-chat" ->
         ~Truthy(ev.data.countryCode) \/ ~Truthy(ev.data.userId)
    [] ev.handler \in {"leave-location-chat", "get-location-room-users"} ->
         ~Truthy(ev.data.countryCode)
    [] ev.handler = "send-location-message" ->
         ~Truthy(ev.data.countryCode) \/ ev.data.message = ""
    [] ev.handler \in {"location-chat-typing", "location-chat-stop-typing"} ->
         ~Truthy(ev.data.countryCode) \/ ~Truthy(ev.data.userId)
    [] OTHER -> FALSE

\* Whether payload d of a location event has its fields, names userId and, if
\* it has a display name, a non-empty one
WellFormedFor(handler, d, userId) ==
  /\ ~Malformed(Event(handler, 0, d))
  /\ d.userId = userId
  /\ "userName" \in DOMAIN d => d.userName # ""

\* The user the location events of the area specification name
Visitor == <<"u">>

\* The id a client sends to get at the mailbox room of user u
ForgedIds == {<<"u", "s", "e", "r", ":", "u">>}

\* Payloads of 'join-location-chat' with such an id as country code
ForgedJoins == [countryCode : ForgedIds, userId : {Visitor}, userName : UserNames]

\* Payloads of 'leave-location-chat' with such an id as country code
ForgedLeaves == [countryCode : ForgedIds, userId : {Visitor}]

\* Payloads of 'send-message' without conversationId or without message
MalformedMessages ==
  [conversationId : {Missing}, message : {"hi"},
   recipientId : {Missing}, isGroupConversation : {FALSE}, participantIds : {Missing}]
    \cup
  [conversationId : ConversationIds, message : {""},
   recipientId : {Missing}, isGroupConversation : {FALSE}, participantIds : {Missing}]

\* Payloads of 'join-location-chat' without countryCode or without userId
MalformedJoins ==
  [countryCode : {Missing}, userId : UserIds, userName : UserNames]
    \cup
  [countryCode : {<<"f", "r">>}, userId : {Missing}, userName : UserNames]

(***************************************************************************)
(* Actions                                                                 *)
(***************************************************************************)
NoEvent == Event("init", 0, NoData)

Init ==
  /\ sockets = <<>>
  /\ onlineUsers = EmptyMap
  /\ typingUsers = EmptyMap
  /\ timers = {}
  /\ locationRoomUsers = EmptyMap
  /\ socketLocationRooms = EmptyMap
  /\ rooms = {}
  /\ last = NoEvent
  /\ emitted = <<>>

Connect(limit) ==
  /\ Len(sockets) < limit
  /\ \E userId \in HandshakeIds :
       LET s == Len(sockets) + 1 IN
       Install(connection(Accept(Start(Event("connection", s, Bare(userId))), userId), s))

Disconnect ==
  \E s \in ConnectedOf(State) :
    Install(disconnect(Close(Start(Event("disconnect", s, NoData)), s), s))

GetOnlineUsers ==
  \E s \in ConnectedOf(State) :
    Install(getOnlineUsers(Start(Event("getOnlineUsers", s, NoData)), s))

JoinConversation(ids) ==
  \E s \in ConnectedOf(State), conversationId \in ids :
    Install(join_conversation(Start(Event("join-conversation", s, Bare(conversationId))),
                              s, conversationId))

LeaveConversation(ids) ==
  \E s \in ConnectedOf(State), conversationId \in ids :
    Install(leave_conversation(Start(Event("leave-conversation", s, Bare(conversationId))),
                               s, conversationId))

SendMessage(payloads) ==
  \E s \in ConnectedOf(State), data \in payloads :
    Install(send_message(Start(Event("send-message", s, data)), s, data))

Typing(payloads) ==
  \E s \in ConnectedOf(State), data \in payloads :
    /\ NewTimeout(State, data).handle <= MaxTimers
    /\ Install(typing(Start(Event("typing", s, data)), s, data))

\* A scheduled timer fires: it is no longer scheduled, and its callback runs.
Fire(t) ==
  Install(typingTimeout([Start(Event("timeout", 0, t)) EXCEPT !.timers = @ \ {t}], t))

TypingTimeout == \E t \in timers : Fire(t)

\* The timer of one typing key fires.
TypingTimeoutOf(key) == \E t \in timers : t.key = key /\ Fire(t)

StopTyping(payloads) ==
  \E s \in ConnectedOf(State), data \in payloads :
    Install(stopTyping(Start(Event("stopTyping", s, data)), s, data))

JoinLocationChat(payloads) ==
  \E s \in ConnectedOf(State), data \in payloads :
    Install(join_location_chat(Start(Event("join-location-chat", s, data)), s, data))

LeaveLocationChat(payloads) ==
  \E s \in ConnectedOf(State), data \in payloads :
    Install(leave_location_chat(Start(Event("leave-location-chat", s, data)), s, data))

GetLocationRoomUsers(payloads) ==
  \E s \in ConnectedOf(State), data \in payloads :
    Install(get_location_room_users(Start(Event("get-location-room-users", s, data)),
                                    s, data))

ConversationUpdate(payloads) ==
  \E s \in ConnectedOf(State), data \in payloads :
    Install(conversation_update(Start(Event("conversation-update", s, data)), s, data))

SendLocationMessage(payloads) ==
  \E s \in ConnectedOf(State), data \in payloads :
    Install(send_location_message(Start(Event("send-location-message", s, data)), s, data))

LocationChatTyping(payloads) ==
  \E s \in ConnectedOf(State), data \in payloads :
    Install(location_chat_typing(Start(Event("location-chat-typing", s, data)), s, data))

LocationChatStopTyping(payloads) ==
  \E s \in ConnectedOf(State), data \in payloads :
    Install(location_chat_stop_typing(Start(Event("location-chat-stop-typing", s, data)),
                                      s, data))

Stats == Install(stats(Start(Event("stats", 0, NoData))))

Next ==
  \/ Connect(MaxSockets)
  \/ Disconnect
  \/ GetOnlineUsers
  \/ JoinConversation(ConversationIds)
  \/ LeaveConversation(ConversationIds)
  \/ SendMessage(SendMessageData)
  \/ Typing(TypingData)
  \/ TypingTimeout
  \/ StopTyping(TypingData)
  \/ ConversationUpdate(ConversationUpdates)
  \/ JoinLocationChat(LocationData)
  \/ LeaveLocationChat(LeaveLocationData)
  \/ GetLocationRoomUsers(LocationQueries)
  \/ SendLocationMessage(LocationMessages)
  \/ LocationChatTyping(LocationTypingData)
  \/ LocationChatStopTyping(LocationStopTypingData)
  \/ Stats

Spec == Init /\ [][Next]_vars

\* Sessions and the online registry only
NextPresence ==
  \/ Connect(MaxSessions)
  \/ Disconnect
  \/ GetOnlineUsers

SpecPresence == Init /\ [][NextPresence]_vars

\* Sessions, conversations and typing indicators
NextTyping ==
  \/ Connect(MaxSockets)
  \/ Disconnect
  \/ JoinConversation(ConversationIds)
  \/ LeaveConversation(ConversationIds)
  \/ SendMessage(PlainMessages)
  \/ Typing(TypingFields)
  \/ TypingTimeout
  \/ StopTyping(TypingFields)

SpecTyping == Init /\ [][NextTyping]_vars

\* Sessions and location chat rooms
NextLocation ==
  \/ Connect(MaxSockets)
  \/ Disconnect
  \/ JoinLocationChat(LocationData)
  \/ LeaveLocationChat(LeaveLocationData)
  \/ GetLocationRoomUsers(LocationQueries)

SpecLocation == Init /\ [][NextLocation]_vars

\* Sessions and location chat rooms, every event naming one user and carrying
\* the area code in either letter case
NextArea ==
  \/ Connect(MaxSockets)
  \/ Disconnect
  \/ JoinLocationChat({d \in LocationData : WellFormedFor("join-location-chat", d, Visitor)})
  \/ LeaveLocationChat({d \in LeaveLocationData : WellFormedFor("leave-location-chat", d, Visitor)})
  \/ GetLocationRoomUsers({d \in LocationQueries : Truthy(d.countryCode)})
  \/ SendLocationMessage({d \in LocationMessages : d.countryCode # Missing /\ d.message # ""})
  \/ LocationChatTyping({d \in LocationTypingData : WellFormedFor("location-chat-typing", d, Visitor)})
  \/ LocationChatStopTyping({d \in LocationStopTypingData :
                               WellFormedFor("location-chat-stop-typing", d, Visitor)})

SpecArea == Init /\ [][NextArea]_vars

\* Sessions that join, leave and query one location room under either user
NextQuery ==
  \/ Connect(MaxSockets)
  \/ Disconnect
  \/ JoinLocationChat({d \in LocationData : d.countryCode = <<"f", "r">> /\ d.userName # ""})
  \/ LeaveLocationChat({d \in LeaveLocationData : d.countryCode = <<"f", "r">>})
  \/ GetLocationRoomUsers({d \in LocationQueries : d.countryCode = <<"f", "r">>})

SpecQuery == Init /\ [][NextQuery]_vars

\* Sessions in conversation rooms that send status updates
NextUpdates ==
  \/ Connect(MaxSockets)
  \/ Disconnect
  \/ JoinConversation(ConversationIds)
  \/ ConversationUpdate({d \in ConversationUpdates : d.status # ""})

SpecUpdates == Init /\ [][NextUpdates]_vars

\* Sessions that join and leave rooms under ids chosen to name a mailbox room
NextRooms ==
  \/ Connect(MaxSockets)
  \/ Disconnect
  \/ JoinConversation(ForgedIds)
  \/ LeaveConversation(ForgedIds)
  \/ JoinLocationChat(ForgedJoins)
  \/ LeaveLocationChat(ForgedLeaves)

SpecRooms == Init /\ [][NextRooms]_vars

\* Sessions, the typing indicator and the location room of one user, and the
\* statistics endpoint
NextStats ==
  \/ Connect(MaxSockets)
  \/ Disconnect
  \/ Typing({d \in TypingFields : d.userId = Visitor})
  \/ TypingTimeout
  \/ StopTyping({d \in TypingFields : d.userId = Visitor})
  \/ JoinLocationChat({d \in LocationData : d.countryCode = <<"f", "r">> /\ d.userId = Visitor
                                              /\ d.userName # ""})
  \/ LeaveLocationChat({d \in LeaveLocationData : d.countryCode = <<"f", "r">>
                                                    /\ d.userId = Visitor})
  \/ Stats

SpecStats == Init /\ [][NextStats]_vars

\* Sessions and the messages sent to mailbox rooms
NextMailbox ==
  \/ Connect(MaxSockets)
  \/ Disconnect
  \/ SendMessage(MailboxMessages)

SpecMailbox == Init /\ [][NextMailbox]_vars

\* Sessions in conversation rooms that send events lacking a required field
NextMalformed ==
  \/ Connect(MaxSockets)
  \/ Disconnect
  \/ JoinConversation(ConversationIds \cup {Missing})
  \/ LeaveConversation({Missing})
  \/ SendMessage(MalformedMessages)
  \/ ConversationUpdate({d \in ConversationUpdates : d.status = ""})
  \/ Typing(TypingData \ TypingFields)
  \/ StopTyping(TypingData \ TypingFields)
  \/ JoinLocationChat(MalformedJoins)
  \/ LeaveLocationChat({d \in LeaveLocationData : ~Truthy(d.countryCode)})
  \/ GetLocationRoomUsers({d \in LocationQueries : ~Truthy(d.countryCode)})
  \/ SendLocationMessage({d \in LocationMessages : Malformed(Event("send-location-message", 0, d))})
  \/ LocationChatTyping({d \in LocationTypingData : Malformed(Event("location-chat-typing", 0, d))})
  \/ LocationChatStopTyping({d \in LocationStopTypingData : Malformed(Event("location-chat-stop-typing", 0, d))})

SpecMalformed == Init /\ [][NextMalformed]_vars

\* Sessions, conversations and typing indicators, with fewer sessions
NextFairTyping ==
  \/ Connect(MaxTypists)
  \/ Disconnect
  \/ JoinConversation(ConversationIds)
  \/ LeaveConversation(ConversationIds)
  \/ SendMessage(PlainMessages)
  \/ Typing(TypingFields)
  \/ TypingTimeout
  \/ StopTyping(TypingFields)

\* Node's event loop runs the callback of every timer that stays scheduled.
FairSpecTyping ==
  /\ Init /\ [][NextFairTyping]_vars
  /\ \A c \in ConversationIds, u \in UserIds : WF_vars(TypingTimeoutOf(Key(c, u)))

(***************************************************************************)
(* Properties                                                              *)
(***************************************************************************)
\* The connected sessions whose handshake identity is userId
LiveSessions(sk, userId) ==
  {s \in 1..Len(sk) : sk[s].connected /\ sk[s].userId = userId}

\* The sessions onlineUsers holds for userId
OnlineSet(ou, userId) == IF MapHas(ou, userId) THEN ou[userId] ELSE {}

\* How many times the handler that ran last broadcast ev(userId) to everyone
StatusCount(out, ev, userId) ==
  Cardinality({i \in 1..Len(out) :
                 /\ out[i].event = ev
                 /\ out[i].room = Everyone
                 /\ out[i].data = Bare(userId)})

\* C1: every step broadcasts 'userOnline'(u) once if it takes u's session set
\* in onlineUsers from empty to non-empty, and not at all otherwise.
C1_OnlineOncePerTransition ==
  [][\A u \in UserIds :
       StatusCount(emitted', "userOnline", u) =
         IF OnlineSet(onlineUsers, u) = {} /\ OnlineSet(onlineUsers', u) # {}
         THEN 1 ELSE 0]_vars

\* C2: every step broadcasts 'userOffline'(u) once if it takes u's session set
\* from non-empty to empty, and not at all otherwise; a step that broadcasts it
\* leaves no connected session of u.
C2_OfflineOncePerTransition ==
  [][\A u \in UserIds :
       /\ StatusCount(emitted', "userOffline", u) =
            IF LiveSessions(sockets, u) # {} /\ LiveSessions(sockets', u) = {}
            THEN 1 ELSE 0
       /\ StatusCount(emitted', "userOffline", u) > 0 =>
            /\ LiveSessions(sockets', u) = {}
            /\ OnlineSet(onlineUsers, u) # {}
            /\ OnlineSet(onlineUsers', u) = {}]_vars

\* C2 witness: a user who had two sessions has just gone offline, at the
\* disconnect of the second.
C2_Witness ==
  \E u \in UserIds :
    /\ last.handler = "disconnect"
    /\ sockets[last.socket].userId = u
    /\ StatusCount(emitted, "userOffline", u) = 1
    /\ Cardinality({s \in 1..Len(sockets) : sockets[s].userId = u}) >= 2
    /\ LiveSessions(sockets, u) = {}

\* The identities that have a connected session
OnlineIdentities == {u \in UserIds : LiveSessions(sockets, u) # {}}

\* C3: onlineUsers has a key for exactly the identities with a connected
\* session, each mapped to exactly those sessions, and 'getOnlineUsers' answers
\* the requester alone with exactly these identities.
C3_RegistryMatchesSessions ==
  /\ DOMAIN onlineUsers = OnlineIdentities
  /\ \A u \in DOMAIN onlineUsers : onlineUsers[u] = LiveSessions(sockets, u)
  /\ last.handler = "getOnlineUsers" =>
       emitted = <<Emission("onlineUsers", SocketRoom(last.socket), {last.socket},
                            Bare(OnlineIdentities))>>

\* C3 witness: a session is told that u is online, with two sessions, after
\* another identity has come and gone.
C3_Witness ==
  /\ last.handler = "getOnlineUsers"
  /\ Len(emitted) = 1
  /\ emitted[1].data = Bare({<<"u">>})
  /\ Cardinality(onlineUsers[<<"u">>]) = 2
  /\ \E s \in 1..Len(sockets) : sockets[s].userId = <<"v">> /\ ~sockets[s].connected

\* C4: every scheduled typing timer is the one typingUsers stores under its
\* key, so each (conversationId, userId) has at most one; and when a timer has
\* just fired, nothing is scheduled or stored for its key.
C4_OneLiveTimerPerKey ==
  /\ \A t \in timers :
       /\ t.key = Key(t.conversationId, t.userId)
       /\ MapHas(typingUsers, t.key)
       /\ typingUsers[t.key].timeout = t
  /\ \A c \in ConversationIds, u \in UserIds :
       Cardinality({t \in timers : t.conversationId = c /\ t.userId = u}) <= 1
  /\ last.handler = "timeout" =>
       /\ ~MapHas(typingUsers, last.data.key)
       /\ \A t \in timers : t.key # last.data.key

\* C4 witness: a key was signalled twice; the second timer is scheduled and
\* stored, the first is gone.
C4_Witness ==
  \E key \in DOMAIN typingUsers :
    /\ typingUsers[key].timeout.handle = 2
    /\ {t \in timers : t.key = key} = {typingUsers[key].timeout}
    /\ last.handler = "typing"

\* 'userStopTyping' for timer t as its expiry callback emits it
TimerStop(st, t) ==
  Emission("userStopTyping", ConversationRoom(t.conversationId),
           MembersOf(st, ConversationRoom(t.conversationId)),
           [userId |-> t.userId, conversationId |-> t.conversationId])

\* C5: (a) a step in which the timer of a key fires emits one 'userStopTyping'
\* for the key to its conversation room and leaves the key without entry and
\* without timer; (b) an entry disappears only when its timer fires or when
\* 'stopTyping', 'leave-conversation', 'send-message' or a disconnect removes
\* it; (c) an entry signalled more than once eventually disappears.
C5_OneStopAfterBurst ==
  /\ [][\A t \in timers :
          (last'.handler = "timeout" /\ last'.data = t) =>
            /\ emitted' = <<TimerStop(State, t)>>
            /\ ~MapHas(typingUsers', t.key)
            /\ \A x \in timers' : x.key # t.key]_vars
  /\ [][\A key \in DOMAIN typingUsers :
          ~MapHas(typingUsers', key) =>
            \/ last'.handler = "timeout" /\ last'.data = typingUsers[key].timeout
            \/ last'.handler \in {"stopTyping", "leave-conversation",
                                  "send-message", "disconnect"}]_vars
  /\ \A c \in ConversationIds, u \in UserIds :
       (MapHas(typingUsers, Key(c, u)) /\ typingUsers[Key(c, u)].timeout.handle >= 2)
         ~> ~MapHas(typingUsers, Key(c, u))

\* C5 witness: the timer of a key signalled twice has just fired, with its one
\* 'userStopTyping' received by a member of the room.
C5_Witness ==
  /\ last.handler = "timeout"
  /\ last.data.handle = 2
  /\ Len(emitted) = 1
  /\ emitted[1].event = "userStopTyping"
  /\ emitted[1].to # {}
  /\ timers = {}
  /\ typingUsers = EmptyMap

\* C6: when the last session of a user has just disconnected, no typing entry
\* and no timer made by that user's sessions is left; stated for the runs in
\* which every session so far was that user's, where all of them are.
C6_DisconnectClearsTypingOfSessions ==
  \A u \in UserIds :
    (/\ last.handler = "disconnect"
     /\ \A s \in 1..Len(sockets) : sockets[s].userId = u
     /\ LiveSessions(sockets, u) = {})
      => (timers = {} /\ typingUsers = EmptyMap)

\* The areas of the location rooms
Areas == {toUpperCase(code) : code \in CountryCodes}

\* The tracked location state and room membership of a state record
LocationState(st) == <<st.locationRoomUsers, st.socketLocationRooms, st.rooms>>

\* C7: for every session that has disconnected, socketLocationRooms has no
\* key, no side-table entry made by its 'join-location-chat' is left, and it
\* is a member of no room.
C7_NoResidueAfterDisconnect ==
  \A s \in 1..Len(sockets) :
    ~sockets[s].connected =>
      /\ ~MapHas(socketLocationRooms, s)
      /\ \A room \in DOMAIN locationRoomUsers :
           \A i \in 1..Len(locationRoomUsers[room]) :
             locationRoomUsers[room][i].socketId # s
      /\ \A p \in rooms : p[2] # s

\* C8: the onlineCount of every area's presence snapshot, and of every
\* 'location-room-presence' the last handler emitted, is the number of
\* sessions that are members of the area's room.
C8_CountIsRoomSize ==
  /\ \A code \in Areas :
       Presence(State, LocationRoom(code), code).onlineCount =
         Cardinality(MembersOf(State, LocationRoom(code)))
  /\ \A i \in 1..Len(emitted) :
       emitted[i].event = "location-room-presence" =>
         emitted[i].data.onlineCount =
           Cardinality(MembersOf(State, LocationRoom(emitted[i].data.countryCode)))

\* C9: from every reachable state, 'join-location-chat' followed by
\* 'leave-location-chat' of the same session with the same payload leaves the
\* area's presence snapshot as it was.
C9_JoinThenLeaveRestores ==
  \A s \in ConnectedOf(State), data \in LocationData :
    Truthy(data.countryCode) =>
      LET code == toUpperCase(data.countryCode)
          joined == join_location_chat(State, s, data)
          left == leave_location_chat([joined EXCEPT !.emitted = <<>>], s,
                                      [countryCode |-> data.countryCode,
                                       userId |-> data.userId])
      IN Presence(left, LocationRoom(code), code) = Presence(State, LocationRoom(code), code)

\* C10: from every reachable state, the second of two consecutive
\* 'leave-location-chat' of a session with the same payload changes no
\* location state and reaches no session; and so does a leave of a session
\* that is not in the room and has no side-table entry there.
C10_SecondLeaveIsNoOp ==
  \A s \in ConnectedOf(State), data \in LeaveLocationData :
    Truthy(data.countryCode) =>
      LET room == LocationRoom(toUpperCase(data.countryCode))
          once == leave_location_chat(State, s, data)
          twice == leave_location_chat([once EXCEPT !.emitted = <<>>], s, data)
          never == /\ s \notin MembersOf(State, room)
                   /\ room \notin OnlineSet(socketLocationRooms, s)
                   /\ \A i \in 1..Len(PresenceUsers(State, room)) :
                        locationRoomUsers[room][i].socketId # s
      IN /\ LocationState(twice) = LocationState(once)
         /\ \A i \in 1..Len(twice.emitted) : twice.emitted[i].to = {}
         /\ never => /\ LocationState(once) = LocationState(State)
                     /\ \A i \in 1..Len(once.emitted) : once.emitted[i].to = {}

\* The positions in out of the emissions of event ev
Emitted(out, ev) == {i \in 1..Len(out) : out[i].event = ev}

\* C11: a step that handles a 'send-message' with neither recipientId nor group
\* flag emits the room-scoped message once, with data.message, to exactly the
\* sessions that were members of the conversation room when the event came,
\* emits 'newMessage' once, with the payload, to exactly the connected
\* sessions, and emits no per-mailbox message.
C11_PlainMessageDelivery ==
  [][(/\ last'.handler = "send-message"
      /\ ~Truthy(last'.data.recipientId)
      /\ ~last'.data.isGroupConversation) =>
       LET data == last'.data
           room == ConversationRoom(data.conversationId)
       IN /\ Cardinality(Emitted(emitted', "message:")) = 1
          /\ \A i \in Emitted(emitted', "message:") :
               /\ emitted'[i].id = data.conversationId
               /\ emitted'[i].to = MembersOf(State, room)
               /\ emitted'[i].data = Bare(data.message)
          /\ Cardinality(Emitted(emitted', "newMessage")) = 1
          /\ \A i \in Emitted(emitted', "newMessage") :
               /\ emitted'[i].to = ConnectedOf(State)
               /\ emitted'[i].data = data
          /\ Emitted(emitted', "message:user:") = {}]_vars

\* C11 witness: of two connected sessions the one in the conversation room,
\* which is not the sender, has received the room-scoped message, and both
\* have received 'newMessage'.
C11_Witness ==
  /\ last.handler = "send-message"
  /\ Cardinality(ConnectedOf(State)) = 2
  /\ \E i \in Emitted(emitted, "message:") :
       /\ emitted[i].to = ConnectedOf(State) \ {last.socket}
       /\ emitted[i].to = MembersOf(State, ConversationRoom(last.data.conversationId))
  /\ \E i \in Emitted(emitted, "newMessage") : emitted[i].to = ConnectedOf(State)

\* C12: a step that handles an inbound event lacking a required field reaches
\* no session with any outbound event and leaves onlineUsers, typingUsers,
\* locationRoomUsers, socketLocationRooms and the room membership unchanged.
C12_MalformedDropped ==
  [][Malformed(last') =>
       /\ \A i \in 1..Len(emitted') : emitted'[i].to = {}
       /\ UNCHANGED <<onlineUsers, typingUsers, locationRoomUsers,
                      socketLocationRooms, rooms>>]_vars

\* Whether out holds a 'location-room-presence' for room that carries the
\* snapshot of state st and is received by the members the room has in st
PresenceSent(out, st, room) ==
  \E i \in Emitted(out, "location-room-presence") :
    /\ out[i].room = room
    /\ out[i].to = MembersOf(st, room)
    /\ out[i].data = Presence(st, room, RoomCode(room))

\* C13: a step that handles 'join-location-chat' or 'leave-location-chat' for
\* an area sends the members its room then has the snapshot of the new state;
\* and a step in which a session tracked in a room disconnects, the room
\* keeping other members, sends them the snapshot of the new state, in which
\* no entry of the departed session is left.
C13_PresenceOnEveryChange ==
  [][/\ (/\ last'.handler \in {"join-location-chat", "leave-location-chat"}
         /\ Truthy(last'.data.countryCode)) =>
          PresenceSent(emitted', State', LocationRoom(toUpperCase(last'.data.countryCode)))
     /\ last'.handler = "disconnect" =>
          \A room \in OnlineSet(socketLocationRooms, last'.socket) :
            MembersOf(State', room) # {} =>
              /\ PresenceSent(emitted', State', room)
              /\ \A i \in 1..Len(PresenceUsers(State', room)) :
                   locationRoomUsers'[room][i].socketId # last'.socket]_vars

\* The positions in out of the 'userStopTyping' emissions addressed to the
\* room of conversationId
StopsFor(out, conversationId) ==
  {i \in Emitted(out, "userStopTyping") : out[i].room = ConversationRoom(conversationId)}

\* C14: a step that handles 'stopTyping' for a key with a pending entry
\* cancels its timer, removes the entry and emits 'userStopTyping' to the
\* conversation room; for a key without entry it reaches no session with any
\* event and changes no state.
C14_StopOnlyIfPending ==
  [][(last'.handler = "stopTyping" /\ ~Malformed(last')) =>
       LET data == last'.data
           key == Key(data.conversationId, data.userId)
       IN IF MapHas(typingUsers, key)
          THEN /\ ~MapHas(typingUsers', key)
               /\ typingUsers[key].timeout \notin timers'
               /\ StopsFor(emitted', data.conversationId) # {}
          ELSE /\ \A i \in 1..Len(emitted') : emitted'[i].to = {}
               /\ UNCHANGED <<sockets, onlineUsers, typingUsers, timers,
                              locationRoomUsers, socketLocationRooms, rooms>>]_vars

\* C15: a step that handles 'leave-conversation' for conversation c from a
\* session of user u emits 'userStopTyping' for u to room c if a typing entry
\* for (c, u) existed, reaches a session with one only if it existed, and
\* leaves no entry for (c, u) and the session outside room c.
C15_LeaveStopsIffTyping ==
  [][(last'.handler = "leave-conversation" /\ Truthy(sockets[last'.socket].userId)) =>
       LET c == last'.data.value
           u == sockets[last'.socket].userId
           stops == {i \in StopsFor(emitted', c) :
                       emitted'[i].data = [userId |-> u, conversationId |-> c]}
       IN /\ MapHas(typingUsers, Key(c, u)) => stops # {}
          /\ (\E i \in stops : emitted'[i].to # {}) => MapHas(typingUsers, Key(c, u))
          /\ ~MapHas(typingUsers', Key(c, u))
          /\ last'.socket \notin MembersOf(State', ConversationRoom(c))]_vars

\* C16: a step that handles 'send-message' for conversation c from a session
\* of user u: if an entry for (c, u) was pending, the members of room c get
\* u's 'userStopTyping' before the room-scoped message, and neither the entry
\* nor a timer for its key is left; if none was pending, no session gets a
\* 'userStopTyping'.
C16_StopBeforeMessage ==
  [][(last'.handler = "send-message" /\ Truthy(sockets[last'.socket].userId)) =>
       LET c == last'.data.conversationId
           u == sockets[last'.socket].userId
           key == Key(c, u)
       IN IF MapHas(typingUsers, key)
          THEN /\ \E i \in StopsFor(emitted', c) :
                    /\ emitted'[i].data = [userId |-> u, conversationId |-> c]
                    /\ emitted'[i].to = MembersOf(State, ConversationRoom(c))
                    /\ \A j \in Emitted(emitted', "message:") : i < j
               /\ ~MapHas(typingUsers', key)
               /\ \A t \in timers' : t.key # key
          ELSE \A i \in Emitted(emitted', "userStopTyping") : emitted'[i].to = {}]_vars

\* C17: a step that handles a 'typing' signal emits one 'userTyping', with the
\* payload, to the sessions that were members of the conversation room except
\* the signalling one; a step in which a typing timer fires emits one
\* 'userStopTyping' to all the sessions that are members of the room then.
C17_TypingSkipsSender ==
  /\ [][(last'.handler = "typing" /\ ~Malformed(last')) =>
          LET room == ConversationRoom(last'.data.conversationId)
          IN /\ emitted' = <<Emission("userTyping", room,
                                      MembersOf(State, room) \ {last'.socket}, last'.data)>>
             /\ \A i \in 1..Len(emitted') : last'.socket \notin emitted'[i].to]_vars
  /\ [][last'.handler = "timeout" =>
          LET room == ConversationRoom(last'.data.conversationId)
          IN /\ Len(emitted') = 1
             /\ emitted'[1].event = "userStopTyping"
             /\ emitted'[1].to = MembersOf(State', room)]_vars

\* C17 witness: a member of the conversation room has signalled 'typing'
\* and the other member alone has received 'userTyping'.
C17_Witness ==
  /\ last.handler = "typing"
  /\ MembersOf(State, ConversationRoom(last.data.conversationId)) = {1, 2}
  /\ Len(emitted) = 1
  /\ emitted[1].event = "userTyping"
  /\ emitted[1].to = {1, 2} \ {last.socket}

\* The positions in out of the per-mailbox message events of userId
Mail(out, userId) == {i \in Emitted(out, "message:user:") : out[i].id = userId}

\* The users whose mailbox a 'send-message' with payload data from a session
\* of user sender is to reach
Mailboxes(data, sender) ==
  (IF Truthy(data.recipientId) THEN {data.recipientId} ELSE {})
    \cup
  (IF data.isGroupConversation /\ Truthy(data.participantIds)
   THEN {data.participantIds[k] : k \in 1..Len(data.participantIds)} \ {sender}
   ELSE {})

\* C18: when 'send-message' has just been handled, the per-mailbox message
\* was emitted, with the payload and to the members of the mailbox room, for
\* recipientId if set and for every participant of a group message except the
\* sender, and for no one else (so a group message without the sender as
\* recipientId puts none in the sender's own mailbox); and no mailbox room
\* with members got it more than once.
C18_MailboxAtMostOnce ==
  last.handler = "send-message" =>
    LET data == last.data
        sender == sockets[last.socket].userId
    IN \A u \in UserIds :
         /\ Mail(emitted, u) # {} <=> u \in Mailboxes(data, sender)
         /\ \A i \in Mail(emitted, u) :
              /\ emitted[i].room = UserRoom(u)
              /\ emitted[i].to = MembersOf(State, UserRoom(u))
              /\ emitted[i].data = data
         /\ Cardinality({i \in Mail(emitted, u) : emitted[i].to # {}}) <= 1

\* C19: a step that handles 'get-location-room-users' for an area emits one
\* 'location-room-presence', to the requesting session alone, whose payload is
\* the one a presence broadcast for the area would carry in the state the
\* event came in, and it changes no tracked state.
C19_QueryRepliesToRequester ==
  [][(last'.handler = "get-location-room-users" /\ Truthy(last'.data.countryCode)) =>
       LET code == toUpperCase(last'.data.countryCode)
           broadcast == broadcastLocationRoomPresence(State, LocationRoom(code), code)
       IN /\ emitted' = <<Emission("location-room-presence", SocketRoom(last'.socket),
                                   {last'.socket}, broadcast.emitted[1].data)>>
          /\ UNCHANGED <<sockets, onlineUsers, typingUsers, timers,
                         locationRoomUsers, socketLocationRooms, rooms>>]_vars

\* C19 witness: a session outside a location room that has another session as
\* member and two users listed has asked for the room's users and alone has
\* received the snapshot.
C19_Witness ==
  /\ last.handler = "get-location-room-users"
  /\ Len(emitted) = 1
  /\ emitted[1].to = {last.socket}
  /\ emitted[1].data.onlineCount = 2
  /\ LET room == LocationRoom(emitted[1].data.countryCode)
     IN /\ MembersOf(State, room) # {}
        /\ last.socket \notin MembersOf(State, room)

\* The location rooms of the upper-cased area codes
AreaRooms == {LocationRoom(code) : code \in Areas}

\* Payload d with its country code in upper case
UpperCased(d) == [d EXCEPT !.countryCode = toUpperCase(@)]

\* The payloads of a set whose country code is not in upper case
LowerCased(payloads) == {d \in payloads : d.countryCode # toUpperCase(d.countryCode)}

\* Whether two emission sequences address the same rooms and sessions with
\* the same events in the same order
SameAddressees(out1, out2) ==
  /\ Len(out1) = Len(out2)
  /\ \A i \in 1..Len(out1) :
       /\ out1[i].event = out2[i].event
       /\ out1[i].room = out2[i].room
       /\ out1[i].to = out2[i].to

\* C20: (a) every key of locationRoomUsers, every room socketLocationRooms
\* holds and every location room with a member is the room of an upper-cased
\* code; (b) every 'location-room-presence' carries an upper-cased code, and
\* every event of the location handlers and of the disconnect cleanup goes to
\* the room of the upper-cased code; (c) in every reachable state every
\* location handler does the same with a payload and with that payload's code
\* upper-cased ('location-chat-typing' and 'location-chat-stop-typing' relay
\* the code as it came, to the same sessions); (d) 'join-location-chat'
\* followed by 'leave-location-chat' with the code in the other letter case
\* leaves the session outside the room, without entry for the user and
\* without the room in socketLocationRooms.
C20_CodesUpperCased ==
  /\ DOMAIN locationRoomUsers \subseteq AreaRooms
  /\ \A s \in DOMAIN socketLocationRooms : socketLocationRooms[s] \subseteq AreaRooms
  /\ \A p \in rooms : p[1][1] = "location-chat" => p[1] \in AreaRooms
  /\ \A i \in 1..Len(emitted) :
       /\ emitted[i].event = "location-room-presence" =>
            /\ emitted[i].data.countryCode \in Areas
            /\ emitted[i].room \in {LocationRoom(emitted[i].data.countryCode),
                                     SocketRoom(last.socket)}
       /\ emitted[i].event \in {"location-message", "location-user-typing",
                                 "location-user-stop-typing"} =>
            emitted[i].room = LocationRoom(toUpperCase(last.data.countryCode))
  /\ \A s \in ConnectedOf(State) :
       /\ \A d \in LowerCased(LocationData) :
            join_location_chat(State, s, d) = join_location_chat(State, s, UpperCased(d))
       /\ \A d \in LowerCased(LeaveLocationData) :
            leave_location_chat(State, s, d) = leave_location_chat(State, s, UpperCased(d))
       /\ \A d \in LowerCased(LocationQueries) :
            get_location_room_users(State, s, d) =
              get_location_room_users(State, s, UpperCased(d))
       /\ \A d \in LowerCased(LocationMessages) :
            send_location_message(State, s, d) = send_location_message(State, s, UpperCased(d))
       /\ \A d \in LowerCased(LocationTypingData) :
            SameAddressees(location_chat_typing(State, s, d).emitted,
                           location_chat_typing(State, s, UpperCased(d)).emitted)
       /\ \A d \in LowerCased(LocationStopTypingData) :
            SameAddressees(location_chat_stop_typing(State, s, d).emitted,
                           location_chat_stop_typing(State, s, UpperCased(d)).emitted)
       /\ \A d \in LocationData, code \in CountryCodes :
            (/\ Truthy(d.countryCode)
             /\ code # d.countryCode
             /\ toUpperCase(code) = toUpperCase(d.countryCode)) =>
              LET room == LocationRoom(toUpperCase(code))
                  joined == join_location_chat(State, s, d)
                  left == leave_location_chat(joined, s,
                                              [countryCode |-> code, userId |-> d.userId])
              IN /\ s \notin MembersOf(left, room)
                 /\ ~OMapHas(PresenceUsers(left, room), d.userId)
                 /\ room \notin OnlineSet(left.socketLocationRooms, s)

\* C20 witness: a session has joined with the lower-case code 'fr'; it is a
\* member of the room of 'FR' with a session that was there before, and both
\* have received a snapshot that carries 'FR'.
C20_Witness ==
  /\ last.handler = "join-location-chat"
  /\ last.data.countryCode = <<"f", "r">>
  /\ Len(emitted) = 1
  /\ emitted[1].data.countryCode = <<"F", "R">>
  /\ emitted[1].to = MembersOf(State, LocationRoom(<<"F", "R">>))
  /\ Cardinality(emitted[1].to) = 2

\* C21: a step that handles 'send-location-message' with area and message
\* emits one 'location-message', with the message, to exactly the sessions
\* that were members of the area's room; a step that handles
\* 'location-chat-typing' or 'location-chat-stop-typing' with area and user
\* emits its one event to those members except the sender; and none of the
\* three changes locationRoomUsers, socketLocationRooms, typingUsers or
\* onlineUsers.
C21_LocationRelay ==
  [][(/\ last'.handler \in {"send-location-message", "location-chat-typing",
                            "location-chat-stop-typing"}
      /\ ~Malformed(last')) =>
       LET data == last'.data
           s == last'.socket
           room == LocationRoom(toUpperCase(data.countryCode))
       IN /\ Len(emitted') = 1
          /\ emitted'[1].room = room
          /\ last'.handler = "send-location-message" =>
               /\ emitted'[1].event = "location-message"
               /\ emitted'[1].to = MembersOf(State, room)
               /\ emitted'[1].data = Bare(data.message)
          /\ last'.handler = "location-chat-typing" =>
               /\ emitted'[1].event = "location-user-typing"
               /\ emitted'[1].to = MembersOf(State, room) \ {s}
          /\ last'.handler = "location-chat-stop-typing" =>
               /\ emitted'[1].event = "location-user-stop-typing"
               /\ emitted'[1].to = MembersOf(State, room) \ {s}
          /\ UNCHANGED <<locationRoomUsers, socketLocationRooms, typingUsers,
                         onlineUsers>>]_vars

\* C21 witness: of two connected sessions the one that is a member of a
\* location room has sent a message to it and alone has received it.
C21_Witness ==
  /\ last.handler = "send-location-message"
  /\ Cardinality(ConnectedOf(State)) = 2
  /\ Len(emitted) = 1
  /\ emitted[1].event = "location-message"
  /\ emitted[1].to = {last.socket}
  /\ MembersOf(State, emitted[1].room) = {last.socket}

\* C22: a step that handles 'conversation-update' with a status emits one
\* event, with the payload, to exactly the connected sessions:
\* 'contactRequestAccepted' if the status is 'accepted' and
\* 'contactRequestRejected' otherwise; and it changes no tracked state.
C22_UpdateBroadcast ==
  [][(last'.handler = "conversation-update" /\ ~Malformed(last')) =>
       /\ emitted' =
            <<Emission(IF last'.data.status = "accepted"
                       THEN "contactRequestAccepted" ELSE "contactRequestRejected",
                       Everyone, ConnectedOf(State), last'.data)>>
       /\ UNCHANGED <<sockets, onlineUsers, typingUsers, timers,
                      locationRoomUsers, socketLocationRooms, rooms>>]_vars

\* C22 witness: an update with a status that is neither 'accepted' nor
\* 'rejected' has reached both connected sessions as 'contactRequestRejected'.
C22_Witness ==
  /\ last.handler = "conversation-update"
  /\ last.data.status = "pending"
  /\ Len(emitted) = 1
  /\ emitted[1].event = "contactRequestRejected"
  /\ emitted[1].to = {1, 2}

\* The sessions that are in a room the adapter knows by name
SessionsIn(name) == {p[2] : p \in {q \in rooms : RoomName(q[1]) = name}}

\* C23: the room named `user:${U}` holds exactly the connected sessions whose
\* handshake identity is U, whatever ids the sessions have joined and left
\* conversations and location rooms with.
C23_MailboxIsolation ==
  \A U \in UserIds : SessionsIn(RoomName(UserRoom(U))) = LiveSessions(sockets, U)

\* C23 witness: while a session of u is connected, a session of another
\* identity has joined the conversation with id 'user:u'.
C23_Witness ==
  /\ last.handler = "join-conversation"
  /\ last.data.value = <<"u", "s", "e", "r", ":", "u">>
  /\ sockets[last.socket].userId # <<"u">>
  /\ LiveSessions(sockets, <<"u">>) # {}
  /\ <<ConversationRoom(last.data.value), last.socket>> \in rooms

\* The side-table entries of a room
EntriesOf(room) ==
  IF MapHas(locationRoomUsers, room)
  THEN {locationRoomUsers[room][i] : i \in 1..Len(locationRoomUsers[room])}
  ELSE {}

\* C24: every side-table entry of a room names a session that is connected,
\* is a member of the room and has the room in socketLocationRooms; and every
\* session that has a room in socketLocationRooms has an entry in that room.
C24_SideTableConsistent ==
  /\ \A room \in DOMAIN locationRoomUsers :
       \A e \in EntriesOf(room) :
         /\ e.socketId \in ConnectedOf(State)
         /\ e.socketId \in MembersOf(State, room)
         /\ room \in OnlineSet(socketLocationRooms, e.socketId)
  /\ \A s \in DOMAIN socketLocationRooms :
       \A room \in socketLocationRooms[s] :
         \E e \in EntriesOf(room) : e.socketId = s

\* C25: onlineUsers holds no user with an empty session set,
\* locationRoomUsers no room without user, socketLocationRooms no session
\* without room, and typingUsers one entry for each scheduled timer; so the
\* counters of a /stats response are the numbers of users with a session, of
\* pending timers and of location rooms with a user.
C25_NoEmptyContainers ==
  /\ \A u \in DOMAIN onlineUsers : onlineUsers[u] # {}
  /\ \A room \in DOMAIN locationRoomUsers : Len(locationRoomUsers[room]) > 0
  /\ \A s \in DOMAIN socketLocationRooms : socketLocationRooms[s] # {}
  /\ timers = {typingUsers[key].timeout : key \in DOMAIN typingUsers}
  /\ Cardinality(DOMAIN typingUsers) = Cardinality(timers)
  /\ last.handler = "stats" =>
       /\ Len(emitted) = 1
       /\ emitted[1].data.onlineUsers =
            Cardinality({u \in DOMAIN onlineUsers : onlineUsers[u] # {}})
       /\ emitted[1].data.typingUsers = Cardinality(timers)
       /\ emitted[1].data.locationChatRooms =
            Cardinality({room \in DOMAIN locationRoomUsers : EntriesOf(room) # {}})

\* C25 witness: /stats has answered with every counter at zero while a
\* session is connected and a session with an identity has disconnected.
C25_Witness ==
  /\ last.handler = "stats"
  /\ \E s \in 1..Len(sockets) : ~sockets[s].connected /\ Truthy(sockets[s].userId)
  /\ ConnectedOf(State) # {}
  /\ emitted[1].data.onlineUsers = 0
  /\ emitted[1].data.typingUsers = 0
  /\ emitted[1].data.locationChatRooms = 0

=============================================================================
